---- MODULE Spec2Model ----
(***************************************************************************)
(* Read-time synchronisation of email drafts between the local database    *)
(* and Gmail (list_drafts_tool / select_draft_tool and _fetch_gmail_draft  *)
(* of email_tool.py, as given in BIDIRECTIONAL_GMAIL_SYNC.md).              *)
(***************************************************************************)
EXTENDS Integers, Sequences, FiniteSets, TLC

VARIABLES
    db,            \* committed rows of the drafts table, by draft id
    sess,          \* the ORM objects of the running tool call (uncommitted)
    gmail,         \* Gmail's draft store, by Gmail draft id
    pc,            \* position of the running tool call
    drafts,        \* list_drafts_tool: the drafts fetched from the database
    idx,           \* list_drafts_tool: position of the for loop in drafts
    synced_count,  \* list_drafts_tool: its counter
    commits,       \* db.commit() calls of the running tool call
    fetches,       \* _fetch_gmail_draft calls of the running tool call, by draft
    ret,           \* the drafts shown to the user by the tool call
    rec,           \* history: the last pass of the sync logic over one draft
    last,          \* history: by draft, the last fetched content and its result
    changed,       \* history: the drafts the running tool call has altered
    edits,         \* history: the edits made so far, oldest first
    ops,           \* history: number of tool calls started so far
    pre,           \* history: the committed rows when the tool call started
    selector,      \* select_draft_tool: the draft number the user asked for
    msgs,          \* frontend: the WhatsApp messages received, with their handlers
    typing,        \* frontend: the chats whose typing indicator is on
    sent,          \* frontend: by message, the replies sent to it, oldest first
    allowed,       \* frontend: config.allowedNumbers
    main           \* frontend: position of main(), exit code of the process

\* the state of the draft tools (backend)
draftVars == <<db, sess, gmail, pc, drafts, idx, synced_count, commits, fetches,
               ret, rec, last, changed, edits, ops, pre, selector>>

\* the state of the WhatsApp frontend
feVars == <<msgs, typing, sent, allowed, main>>

vars == <<draftVars, feVars>>

----------------------------------------------------------------------------
(* Bounds *)

NumDrafts == 3
MaxEdits == 2
MaxOps == 2
\* the drafts the user edits during the run are 1..MaxEditedDraft
MaxEditedDraft == 1
\* frontend: WhatsApp messages whose handlers run at the same time
MaxMsgs == 2
\* frontend: messages with an attachment whose handlers run at the same time
MaxMedia == 1

----------------------------------------------------------------------------
(* Values *)

\* Python's None, for a string-valued attribute
NoneVal == "<None>"

DraftIds == 1..NumDrafts

EditedDrafts == {d \in DraftIds : d <= MaxEditedDraft}

Fields == {"to_email", "subject", "body"}

\* what an edit in Gmail can leave in a field: nothing, a blank, or new text
GmailVals == {"", " ", "Version A"}

\* what an edit through the chatbot writes into a field
ChatbotVals == {"Version B"}

\* draft.gmail_draft_id: odd drafts were saved to Gmail, the others were not
\* (None, or an empty string)
GmailIdOf(d) ==
    CASE d = 1 -> "g1"
      [] d = 3 -> "g3"
      [] d = 5 -> "g5"
      [] d = 2 -> ""
      [] OTHER -> NoneVal

\* Python truthiness of an Optional[str]
Truthy(x) == x # NoneVal /\ x # ""

GmailIds == {GmailIdOf(d) : d \in {e \in DraftIds : Truthy(GmailIdOf(e))}}

\* the row of draft d when it was created by the chatbot
InitDraft(d) ==
    [id |-> d, user_id |-> "628118491177@c.us", gmail_draft_id |-> GmailIdOf(d),
     to_email |-> "alice@example.com", subject |-> "meeting",
     body |-> "Meeting at 2 PM",
     status |-> IF Truthy(GmailIdOf(d)) THEN "kept" ELSE "draft",
     expires_at |-> 24 * d, created_at |-> d]

\* the Gmail draft created from it ("Both in sync"); the draft of draft 3 has
\* since been edited in the Gmail web interface ("Changes time from 2 PM to 3 PM")
InitGmail(g) ==
    [exists |-> TRUE, to_email |-> "alice@example.com", subject |-> "meeting",
     body |-> IF g = "g3" THEN "Meeting at 3 PM" ELSE "Meeting at 2 PM"]

\* the return value None of _fetch_gmail_draft
NoneContent == [ok |-> FALSE, to_email |-> "", subject |-> "", body |-> ""]

\* no pass of the sync logic yet
NoPass == [gc |-> NoneContent, after |-> InitDraft(1)]

NoRec == [id |-> 0, op |-> "none", before |-> InitDraft(1), gc |-> NoneContent,
          after |-> InitDraft(1), fetched |-> FALSE, synced |-> FALSE,
          prev |-> NoPass, mode |-> "none"]

----------------------------------------------------------------------------
(* _fetch_gmail_draft *)

\* variant: the content is served from what was stored when the Gmail draft
\* was created, not read from Gmail
FetchResults_Cached(g) ==
    IF g \in DOMAIN gmail /\ gmail[g].exists
    THEN {[ok |-> TRUE, to_email |-> InitGmail(g).to_email,
           subject |-> InitGmail(g).subject, body |-> InitGmail(g).body],
          NoneContent}
    ELSE {NoneContent}

\* what a call can return: the draft's content as a dict, or None when the
\* Gmail API is unavailable, the call fails, or the draft is not found
FetchResults(g) ==
    IF g \in DOMAIN gmail /\ gmail[g].exists
    THEN {[ok |-> TRUE, to_email |-> gmail[g].to_email,
           subject |-> gmail[g].subject, body |-> gmail[g].body],
          NoneContent}
    ELSE {NoneContent}

\* how a call can go wrong: Gmail API unavailable (no service, token expired),
\* draft not found (HttpError 404), the API call fails on the network, or the
\* draft comes back without a message
FailureModes == {"api_unavailable", "not_found", "network_error", "no_message"}

\* how a call for Gmail draft g can go
FetchModes(g) ==
    IF g \in DOMAIN gmail /\ gmail[g].exists
    THEN {"ok", "api_unavailable", "network_error", "no_message"}
    ELSE {"not_found", "api_unavailable", "network_error"}

\* variant: the API call is not wrapped in try/except
FetchGmailDraft_Unguarded(g, mode) ==
    [raised |-> mode \in {"not_found", "network_error"},
     value |-> IF mode = "ok" THEN CHOOSE c \in FetchResults(g) : c.ok
               ELSE NoneContent]

\* the call: every failure is logged and turned into None
FetchGmailDraft(g, mode) ==
    [raised |-> FALSE,
     value |-> IF mode = "ok" THEN CHOOSE c \in FetchResults(g) : c.ok
               ELSE NoneContent]

----------------------------------------------------------------------------
(* The sync logic shared by list_drafts_tool and select_draft_tool *)

\* variant: the operands of  or  the other way round (local value first)
PyOr_LocalFirst(x, y) == IF Truthy(y) THEN y ELSE x

\* Python's  x or y
PyOr(x, y) == IF Truthy(x) THEN x ELSE y

\* variant:  if draft.gmail_draft_id is not None:
HasGmailId_IsNotNone(draft) == draft.gmail_draft_id # NoneVal

\* if draft.gmail_draft_id:
HasGmailId(draft) == Truthy(draft.gmail_draft_id)

\* if gmail_content:   (None is falsy, a dict with keys is truthy)
GotContent(gc) == gc.ok

\* a value with nothing but whitespace in it
IsBlank(x) == x \in {NoneVal, "", " "}

\* variant: the Gmail value is stripped before the test
Merge_BlankIsEmpty(draft, gc) ==
    [draft EXCEPT !.to_email = IF IsBlank(gc.to_email) THEN draft.to_email
                               ELSE gc.to_email,
                  !.subject = IF IsBlank(gc.subject) THEN draft.subject
                              ELSE gc.subject,
                  !.body = IF IsBlank(gc.body) THEN draft.body ELSE gc.body]

\* variant: the row is also put back to the state of a fresh draft
Merge_SetsStatus(draft, gc) ==
    [draft EXCEPT !.to_email = PyOr(gc.to_email, draft.to_email),
                  !.subject = PyOr(gc.subject, draft.subject),
                  !.body = PyOr(gc.body, draft.body),
                  !.status = "draft"]

\* variant: the assignments without their  or  fallback
Merge_NoFallback(draft, gc) ==
    [draft EXCEPT !.to_email = gc.to_email, !.subject = gc.subject,
                  !.body = gc.body]

\* variant: the first assignment falls back on the wrong attribute
Merge_WrongFallback(draft, gc) ==
    [draft EXCEPT !.to_email = PyOr(gc.to_email, draft.subject),
                  !.subject = PyOr(gc.subject, draft.subject),
                  !.body = PyOr(gc.body, draft.body)]

\* the three assignments
Merge(draft, gc) ==
    [draft EXCEPT !.to_email = PyOr(gc.to_email, draft.to_email),
                  !.subject = PyOr(gc.subject, draft.subject),
                  !.body = PyOr(gc.body, draft.body)]

\* variant: synced_count += 1 after the  if gmail_content:  block
NextSyncedCount_Always(n, gc) == n + 1

\* synced_count += 1, inside  if gmail_content:
NextSyncedCount(n, gc) == IF GotContent(gc) THEN n + 1 ELSE n

\* variant: neither the  if gmail_content:  test nor the  or  fallback
SyncDraft_AlwaysAssign(draft, gc) ==
    [draft EXCEPT !.to_email = gc.to_email, !.subject = gc.subject,
                  !.body = gc.body]

\* the draft after the sync logic, given what the fetch returned
SyncDraft(draft, gc) == IF GotContent(gc) THEN Merge(draft, gc) ELSE draft

\* variant: the loop is left when a fetch returns None
LoopNext_BreakOnNone(i, gc) == IF GotContent(gc) THEN i + 1 ELSE NumDrafts + 1

\* for draft in drafts:  the loop goes on to the next draft whatever was fetched
LoopNext(i, gc) == i + 1

\* variant: only the row of the loop variable (the last draft) is written
CommitRows_LastOnly(rows, objects) ==
    [rows EXCEPT ![NumDrafts] = objects[NumDrafts]]

\* variant: the table is replaced by the objects the session has modified
CommitRows_OnlyDirty(rows, objects) ==
    [d \in {e \in DOMAIN rows : objects[e] # rows[e]} |-> objects[d]]

\* db.commit(): the rows of all session objects are written in one transaction
CommitRows(rows, objects) == [d \in DOMAIN rows |-> objects[d]]

\* variant: only the drafts that have a Gmail draft are shown
ShownDrafts_OnlySynced(ds, objects) ==
    LET F[i \in 0..Len(ds)] ==
            IF i = 0 THEN <<>>
            ELSE IF Truthy(objects[ds[i]].gmail_draft_id)
                 THEN Append(F[i - 1], objects[ds[i]])
                 ELSE F[i - 1]
    IN  F[Len(ds)]

\* the list shown: every draft fetched from the database, in that order
ShownDrafts(ds, objects) == [i \in 1..Len(ds) |-> objects[ds[i]]]

\* variant:  if synced_count > 1:
NeedCommit_OffByOne(n) == n > 1

\* if synced_count > 0:
NeedCommit(n) == n > 0

----------------------------------------------------------------------------
(* State after construction *)

DraftsInit ==
    /\ db = [d \in DraftIds |-> InitDraft(d)]
    /\ sess = [d \in DraftIds |-> InitDraft(d)]
    /\ gmail = [g \in GmailIds |-> InitGmail(g)]
    /\ pc = "idle"
    /\ drafts = <<>>
    /\ idx = 1
    /\ synced_count = 0
    /\ commits = 0
    /\ fetches = [d \in DraftIds |-> 0]
    /\ ret = <<>>
    /\ rec = NoRec
    /\ last = [d \in DraftIds |-> NoPass]
    /\ changed = {}
    /\ edits = <<>>
    /\ ops = 0
    /\ pre = [d \in DraftIds |-> InitDraft(d)]
    /\ selector = 0

\* no message received yet; ALLOWED_WHATSAPP_NUMBERS unset
Init ==
    /\ DraftsInit
    /\ msgs = <<>>
    /\ typing = {}
    /\ sent = <<>>
    /\ allowed = {}
    /\ main = [pc |-> "checking", code |-> NoneVal, client |-> FALSE,
               health |-> NoneVal]

\* the user's drafts, as the database query returns them
QueryDrafts ==
    LET RECURSIVE Upto(_)
        Upto(n) == IF n = 0 THEN <<>> ELSE Append(Upto(n - 1), n)
    IN  Upto(NumDrafts)

----------------------------------------------------------------------------
(* list_drafts_tool *)

\* "show my drafts": fetch the drafts from the database, synced_count = 0
ListStart ==
    /\ pc = "idle"
    /\ ops < MaxOps
    /\ pc' = "list"
    /\ ops' = ops + 1
    /\ sess' = db
    /\ drafts' = QueryDrafts
    /\ idx' = 1
    /\ synced_count' = 0
    /\ commits' = 0
    /\ fetches' = [d \in DraftIds |-> 0]
    /\ ret' = <<>>
    /\ changed' = {}
    /\ pre' = db
    /\ UNCHANGED <<db, gmail, rec, last, edits, selector>>
    /\ UNCHANGED feVars

\* one iteration of  for draft in drafts:
ListStep ==
    /\ pc = "list"
    /\ idx <= Len(drafts)
    /\ LET d == drafts[idx]
           draft == sess[d]
       IN  IF HasGmailId(draft)
           THEN \E mode \in FetchModes(draft.gmail_draft_id) :
                  LET r == FetchGmailDraft(draft.gmail_draft_id, mode)
                      gc == r.value
                  IN  /\ fetches' = [fetches EXCEPT ![d] = @ + 1]
                      /\ IF r.raised
                         THEN /\ pc' = "aborted"
                              /\ rec' = [id |-> d, op |-> "list", before |-> draft,
                                         gc |-> NoneContent, after |-> draft,
                                         fetched |-> TRUE, synced |-> FALSE,
                                         prev |-> last[d], mode |-> mode]
                              /\ UNCHANGED <<sess, synced_count, changed, last, idx>>
                         ELSE /\ sess' = [sess EXCEPT ![d] = SyncDraft(draft, gc)]
                              /\ synced_count' = NextSyncedCount(synced_count, gc)
                              /\ rec' = [id |-> d, op |-> "list", before |-> draft,
                                         gc |-> gc, after |-> SyncDraft(draft, gc),
                                         fetched |-> TRUE,
                                         synced |-> NextSyncedCount(synced_count, gc)
                                                        > synced_count,
                                         prev |-> last[d], mode |-> mode]
                              /\ changed' = IF SyncDraft(draft, gc) # draft
                                            THEN changed \cup {d} ELSE changed
                              /\ last' = [last EXCEPT ![d] =
                                            [gc |-> gc, after |-> SyncDraft(draft, gc)]]
                              /\ idx' = LoopNext(idx, gc)
                              /\ pc' = pc
           ELSE /\ rec' = [id |-> d, op |-> "list", before |-> draft,
                           gc |-> NoneContent, after |-> draft,
                           fetched |-> FALSE, synced |-> FALSE, prev |-> last[d],
                           mode |-> "none"]
                /\ idx' = idx + 1
                /\ UNCHANGED <<fetches, sess, synced_count, last, changed, pc>>
    /\ UNCHANGED <<db, gmail, drafts, commits, ret, edits, ops, pre, selector>>
    /\ UNCHANGED feVars

\* after the loop:  if synced_count > 0: db.commit() ; then the list is shown.
\* A commit that raises ends the tool call with the exception.
ListEnd ==
    /\ pc = "list"
    /\ idx > Len(drafts)
    /\ IF NeedCommit(synced_count)
       THEN \E commit_ok \in BOOLEAN :
              /\ commits' = commits + 1
              /\ IF commit_ok
                 THEN /\ db' = CommitRows(db, sess)
                      /\ ret' = ShownDrafts(drafts, sess)
                      /\ pc' = "list_done"
                 ELSE /\ pc' = "list_failed"
                      /\ UNCHANGED <<db, ret>>
       ELSE /\ ret' = ShownDrafts(drafts, sess)
            /\ pc' = "list_done"
            /\ UNCHANGED <<db, commits>>
    /\ UNCHANGED <<sess, gmail, drafts, idx, synced_count, fetches, rec, last,
                   changed, edits, ops, pre, selector>>
    /\ UNCHANGED feVars

----------------------------------------------------------------------------
(* select_draft_tool *)

\* "select draft d": the selected draft is synced from Gmail, then shown
SelectDraft(d) ==
    /\ pc = "idle"
    /\ ops < MaxOps
    /\ ops' = ops + 1
    /\ LET selected_draft == db[d]
       IN  IF HasGmailId(selected_draft)
           THEN \E mode \in FetchModes(selected_draft.gmail_draft_id) :
                  LET r == FetchGmailDraft(selected_draft.gmail_draft_id, mode)
                      gc == r.value
                  IN  /\ fetches' = [e \in DraftIds |-> IF e = d THEN 1 ELSE 0]
                      /\ IF r.raised
                         THEN /\ pc' = "aborted"
                              /\ sess' = db
                              /\ ret' = <<>>
                              /\ rec' = [id |-> d, op |-> "select",
                                         before |-> selected_draft,
                                         gc |-> NoneContent, after |-> selected_draft,
                                         fetched |-> TRUE, synced |-> FALSE,
                                         prev |-> last[d], mode |-> mode]
                              /\ UNCHANGED last
                              /\ changed' = {}
                         ELSE /\ pc' = "select_done"
                              /\ sess' = [db EXCEPT ![d] = SyncDraft(selected_draft, gc)]
                              /\ ret' = <<SyncDraft(selected_draft, gc)>>
                              /\ rec' = [id |-> d, op |-> "select",
                                         before |-> selected_draft, gc |-> gc,
                                         after |-> SyncDraft(selected_draft, gc),
                                         fetched |-> TRUE, synced |-> GotContent(gc),
                                         prev |-> last[d], mode |-> mode]
                              /\ last' = [last EXCEPT ![d] =
                                            [gc |-> gc,
                                             after |-> SyncDraft(selected_draft, gc)]]
                              /\ changed' = IF SyncDraft(selected_draft, gc)
                                                  # selected_draft
                                            THEN {d} ELSE {}
           ELSE /\ pc' = "select_done"
                /\ fetches' = [e \in DraftIds |-> 0]
                /\ sess' = db
                /\ ret' = <<selected_draft>>
                /\ rec' = [id |-> d, op |-> "select", before |-> selected_draft,
                           gc |-> NoneContent, after |-> selected_draft,
                           fetched |-> FALSE, synced |-> FALSE, prev |-> last[d],
                           mode |-> "none"]
                /\ last' = last
                /\ changed' = {}
    /\ drafts' = <<d>>
    /\ idx' = 1
    /\ synced_count' = 0
    /\ commits' = 0
    /\ pre' = db
    /\ selector' = d
    /\ UNCHANGED <<db, gmail, edits>>
    /\ UNCHANGED feVars

\* the draft numbers a user can ask for: those of the drafts, and one too many
Selectors == 1..(NumDrafts + 1)

\* the selector names one of the user's drafts
SelectorFound(n) == n \in DraftIds

\* variant: a number past the end selects the first draft
SelectMissing_ShowsFirst(n) ==
    /\ pc = "idle"
    /\ ops < MaxOps
    /\ ~SelectorFound(n)
    /\ ops' = ops + 1
    /\ pc' = "select_done"
    /\ selector' = n
    /\ ret' = <<db[1]>>
    /\ drafts' = <<1>>
    /\ pre' = db
    /\ UNCHANGED <<db, sess, gmail, idx, synced_count, commits, fetches, rec,
                   last, changed, edits>>
    /\ UNCHANGED feVars

\* "select draft n" where the user has no draft n: the tool answers that there
\* is no such draft
SelectMissing(n) ==
    /\ pc = "idle"
    /\ ops < MaxOps
    /\ ~SelectorFound(n)
    /\ ops' = ops + 1
    /\ pc' = "no_such_draft"
    /\ selector' = n
    /\ ret' = <<>>
    /\ drafts' = <<>>
    /\ pre' = db
    /\ UNCHANGED <<db, sess, gmail, idx, synced_count, commits, fetches, rec,
                   last, changed, edits>>
    /\ UNCHANGED feVars

\* the tool call returns; the chatbot waits for the next message
Finish ==
    /\ pc \in {"list_done", "select_done", "aborted", "list_failed",
              "no_such_draft"}
    /\ pc' = "idle"
    /\ sess' = db
    /\ drafts' = <<>>
    /\ idx' = 1
    /\ synced_count' = 0
    /\ commits' = 0
    /\ fetches' = [d \in DraftIds |-> 0]
    /\ ret' = <<>>
    /\ rec' = NoRec
    /\ changed' = {}
    /\ pre' = db
    /\ selector' = 0
    /\ UNCHANGED <<db, gmail, last, edits, ops>>
    /\ UNCHANGED feVars

----------------------------------------------------------------------------
(* Edits made outside the two tools *)

\* the user edits the draft of d in the Gmail web interface or Gmail mobile
GmailEdit(d, f, v) ==
    /\ Len(edits) < MaxEdits
    /\ db[d].gmail_draft_id \in DOMAIN gmail
    /\ gmail[db[d].gmail_draft_id].exists
    /\ gmail[db[d].gmail_draft_id][f] # v
    /\ gmail' = [gmail EXCEPT ![db[d].gmail_draft_id][f] = v]
    /\ edits' = Append(edits, [by |-> "gmail", id |-> d, field |-> f, val |-> v,
                               at |-> ops])
    /\ UNCHANGED <<db, sess, pc, drafts, idx, synced_count, commits, fetches,
                   ret, rec, last, changed, ops, pre, selector>>
    /\ UNCHANGED feVars

\* the user empties the draft of d in Gmail: no recipient, no subject, no text
GmailClear(d) ==
    /\ Len(edits) < MaxEdits
    /\ db[d].gmail_draft_id \in DOMAIN gmail
    /\ gmail[db[d].gmail_draft_id].exists
    /\ \E f \in Fields : gmail[db[d].gmail_draft_id][f] # ""
    /\ gmail' = [gmail EXCEPT ![db[d].gmail_draft_id] =
                    [exists |-> TRUE, to_email |-> "", subject |-> "", body |-> ""]]
    /\ edits' = Append(edits, [by |-> "gmail", id |-> d, field |-> "all",
                               val |-> "", at |-> ops])
    /\ UNCHANGED <<db, sess, pc, drafts, idx, synced_count, commits, fetches,
                   ret, rec, last, changed, ops, pre, selector>>
    /\ UNCHANGED feVars

\* the user deletes the draft of d in Gmail
GmailDelete(d) ==
    /\ Len(edits) < MaxEdits
    /\ db[d].gmail_draft_id \in DOMAIN gmail
    /\ gmail[db[d].gmail_draft_id].exists
    /\ gmail' = [gmail EXCEPT ![db[d].gmail_draft_id].exists = FALSE]
    /\ edits' = Append(edits, [by |-> "gmail", id |-> d, field |-> "deleted",
                               val |-> "", at |-> ops])
    /\ UNCHANGED <<db, sess, pc, drafts, idx, synced_count, commits, fetches,
                   ret, rec, last, changed, ops, pre, selector>>
    /\ UNCHANGED feVars

\* the user edits draft d through the chatbot, between two tool calls
ChatbotEdit(d, f, v) ==
    /\ pc = "idle"
    /\ Len(edits) < MaxEdits
    /\ db[d][f] # v
    /\ db' = [db EXCEPT ![d][f] = v]
    /\ edits' = Append(edits, [by |-> "chatbot", id |-> d, field |-> f, val |-> v,
                               at |-> ops])
    /\ sess' = db'
    /\ pre' = db'
    /\ UNCHANGED <<gmail, pc, drafts, idx, synced_count, commits, fetches,
                   ret, rec, last, changed, ops, selector>>
    /\ UNCHANGED feVars

----------------------------------------------------------------------------

Next ==
    \/ ListStart
    \/ ListStep
    \/ ListEnd
    \/ \E d \in DraftIds : SelectDraft(d)
    \/ \E n \in Selectors : SelectMissing(n)
    \/ Finish
    \/ \E d \in EditedDrafts, f \in Fields, v \in GmailVals : GmailEdit(d, f, v)
    \/ \E d \in EditedDrafts : GmailClear(d)
    \/ \E d \in EditedDrafts : GmailDelete(d)
    \/ \E d \in EditedDrafts, f \in Fields, v \in ChatbotVals : ChatbotEdit(d, f, v)

Spec == Init /\ [][Next]_vars

----------------------------------------------------------------------------
(* The WhatsApp frontend: the 'message' listener and handleMessage *)

\* the values ALLOWED_WHATSAPP_NUMBERS is run with: unset, or one number
AllowedConfigs == {{}, {"111"}}

\* userId.split('@')[0]
PhoneOf(from) ==
    CASE from = "111@c.us" -> "111"
      [] from = "222@c.us" -> "222"
      [] from = "status@broadcast" -> "status"
      [] OTHER -> from

\* text.trim()
Trim(text) == IF text = " " THEN "" ELSE text

\* !messageText || messageText.trim() === ''
NoText(text) == text = "" \/ Trim(text) = ""

\* the reply texts of sendMessageToAgent and of handleMessage's catch block
AgentReply == "Here are your drafts"
ConnectionTrouble ==
    "I'm having trouble connecting to my brain right now. Please try again in a moment."
Apology ==
    "I apologize, but I'm having technical difficulties right now. Please try again in a moment."

NoResult == [success |-> FALSE, response |-> ""]

\* message.body || '' ,  media.filename || `document.${...}`
JsOr(x, y) == IF x \in {NoneVal, ""} THEN y ELSE x

\* fileData = null
NoFile == [present |-> FALSE, data |-> "", name |-> "", mime |-> ""]

\* the text a document without caption is sent with
DefaultText == "Please summarize this document."

\* supportedTypes
SupportedTypes ==
    {"application/pdf",
     "application/vnd.openxmlformats-officedocument.wordprocessingml.document",
     "application/vnd.openxmlformats-officedocument.presentationml.presentation",
     "application/vnd.openxmlformats-officedocument.spreadsheetml.sheet",
     "application/vnd.ms-excel",
     "text/csv",
     "text/plain",
     "application/msword"}

\* getExtensionFromMimetype:  mimeMap[mimetype] || 'bin'
getExtensionFromMimetype(mimetype) ==
    CASE mimetype = "application/pdf" -> "pdf"
      [] mimetype = "application/vnd.openxmlformats-officedocument.wordprocessingml.document" -> "docx"
      [] mimetype = "application/vnd.openxmlformats-officedocument.presentationml.presentation" -> "pptx"
      [] mimetype = "application/vnd.openxmlformats-officedocument.spreadsheetml.sheet" -> "xlsx"
      [] mimetype = "application/vnd.ms-excel" -> "xls"
      [] mimetype = "text/csv" -> "csv"
      [] mimetype = "text/plain" -> "txt"
      [] mimetype = "application/msword" -> "doc"
      [] OTHER -> "bin"

\* a text message of a private chat
TextMsg(from, body) ==
    [from |-> from, isGroup |-> FALSE, broadcast |-> FALSE, fromMe |-> FALSE,
     body |-> body, hasMedia |-> FALSE, mimetype |-> NoneVal,
     filename |-> NoneVal]

\* a message of a private chat with an attachment
MediaMsg(from, body, mimetype, filename) ==
    [TextMsg(from, body) EXCEPT !.hasMedia = TRUE, !.mimetype = mimetype,
                                !.filename = filename]

\* the messages the WhatsApp client can deliver
MsgKinds ==
    {TextMsg("111@c.us", b) : b \in {"", " ", "show my drafts"}}
    \cup {TextMsg("222@c.us", "show my drafts"),
          TextMsg("status@broadcast", "show my drafts"),
          [TextMsg("111@c.us", "show my drafts") EXCEPT !.broadcast = TRUE],
          [TextMsg("111@c.us", "show my drafts") EXCEPT !.fromMe = TRUE],
          [MediaMsg("111@c.us", "see this", "application/pdf", NoneVal)
              EXCEPT !.isGroup = TRUE]}
    \cup {MediaMsg("111@c.us", b, "application/pdf", NoneVal) : b \in {"", " "}}
    \cup {MediaMsg("111@c.us", "what is this?", "text/csv", "report.csv"),
          MediaMsg("111@c.us", " ", "image/jpeg", NoneVal),
          MediaMsg("111@c.us", "what is this?", "image/jpeg", NoneVal),
          MediaMsg("222@c.us", "", "application/pdf", NoneVal)}

\* how  await message.downloadMedia()  can end for message m: with the media,
\* with nothing, or with an exception
DownloadOutcomes(m) ==
    {[kind |-> "media", mimetype |-> m.mimetype, filename |-> m.filename,
      data |-> "JVBERi0x"],
     [kind |-> "nothing", mimetype |-> NoneVal, filename |-> NoneVal, data |-> ""],
     [kind |-> "throws", mimetype |-> NoneVal, filename |-> NoneVal, data |-> ""]}

\* variant: a document without caption is sent with its empty text
ProcessMedia_NoDefaultText(body, dl) ==
    LET messageText == JsOr(body, "")
    IN  IF dl.kind = "media" /\ dl.mimetype \in SupportedTypes
        THEN [fileData |-> [present |-> TRUE, data |-> dl.data,
                            name |-> JsOr(dl.filename, "document." \o
                                          getExtensionFromMimetype(dl.mimetype)),
                            mime |-> dl.mimetype],
              messageText |-> messageText, returns |-> FALSE, throws |-> FALSE]
        ELSE [fileData |-> NoFile, messageText |-> messageText,
              returns |-> dl.kind = "media" /\ NoText(messageText),
              throws |-> FALSE]

\* variant: the download is not inside its own try/catch
ProcessMedia_DownloadUncaught(body, dl) ==
    LET messageText == JsOr(body, "")
    IN  IF dl.kind = "media" /\ dl.mimetype \in SupportedTypes
        THEN [fileData |-> [present |-> TRUE, data |-> dl.data,
                            name |-> JsOr(dl.filename, "document." \o
                                          getExtensionFromMimetype(dl.mimetype)),
                            mime |-> dl.mimetype],
              messageText |-> IF NoText(messageText) THEN DefaultText
                              ELSE messageText,
              returns |-> FALSE, throws |-> FALSE]
        ELSE [fileData |-> NoFile, messageText |-> messageText,
              returns |-> dl.kind = "media" /\ NoText(messageText),
              throws |-> dl.kind = "throws"]

\* the  if (message.hasMedia)  block once the download has ended with dl:
\* fileData and messageText after it, and whether the handler returns there
ProcessMedia(body, dl) ==
    LET messageText == JsOr(body, "")
    IN  IF dl.kind = "media" /\ dl.mimetype \in SupportedTypes
        THEN [fileData |-> [present |-> TRUE, data |-> dl.data,
                            name |-> JsOr(dl.filename, "document." \o
                                          getExtensionFromMimetype(dl.mimetype)),
                            mime |-> dl.mimetype],
              messageText |-> IF NoText(messageText) THEN DefaultText
                              ELSE messageText,
              returns |-> FALSE, throws |-> FALSE]
        ELSE [fileData |-> NoFile, messageText |-> messageText,
              returns |-> dl.kind = "media" /\ NoText(messageText),
              throws |-> FALSE]

\* how the POST /chat can end
PostOutcomes == {"ok", "http_error", "timeout"}

\* variant: the file fields are always put in the payload
Payload_AlwaysFile(userId, message, fileData) ==
    [user_id |-> userId, message |-> message, file_data |-> fileData.data,
     file_name |-> fileData.name, file_mime |-> fileData.mime]

\* the payload of the POST /chat
Payload(userId, message, fileData) ==
    IF fileData.present
    THEN [user_id |-> userId, message |-> message, file_data |-> fileData.data,
          file_name |-> fileData.name, file_mime |-> fileData.mime]
    ELSE [user_id |-> userId, message |-> message]

\* sendMessageToAgent: the payload it posts and what it returns, given how the
\* POST ends
sendMessageToAgent(userId, message, fileData, outcome) ==
    [threw |-> FALSE,
     payload |-> Payload(userId, message, fileData),
     result |-> IF outcome = "ok"
                THEN [success |-> TRUE, response |-> AgentReply]
                ELSE [success |-> FALSE, response |-> ConnectionTrouble]]

\* how the GET /health can end: it fails (no connection, timeout, HTTP error),
\* or it returns a body, with or without a healthy field
HealthResponses ==
    {[ok |-> FALSE, data |-> [error |-> "connect ECONNREFUSED"]],
     [ok |-> TRUE, data |-> [healthy |-> TRUE, version |-> "1.0.0",
                             environment |-> "development"]],
     [ok |-> TRUE, data |-> [healthy |-> FALSE, version |-> "1.0.0",
                             environment |-> "development"]],
     [ok |-> TRUE, data |-> [status |-> "ok"]]}

\* checkBackendHealth:  { healthy: true, ...response.data }  or, in the catch
\* block,  { healthy: false, error }
checkBackendHealth(resp) ==
    IF resp.ok
    THEN [healthy |-> IF "healthy" \in DOMAIN resp.data THEN resp.data.healthy
                      ELSE TRUE]
    ELSE [healthy |-> FALSE]

\* variant: an unhealthy backend is logged and the client is started anyway
MainAfterHealth_WarnOnly(m, health) ==
    [m EXCEPT !.pc = "initializing", !.client = TRUE]

\* main() after  await checkBackendHealth():  process.exit(1)  when the result
\* is not healthy, else initializeWhatsAppClient(handleMessage) is called
MainAfterHealth(m, health) ==
    IF ~health.healthy
    THEN [m EXCEPT !.pc = "exited", !.code = 1]
    ELSE [m EXCEPT !.pc = "initializing", !.client = TRUE]

\* the process is started: main() awaits the health check
InitFrontend ==
    /\ DraftsInit
    /\ msgs = <<>>
    /\ typing = {}
    /\ sent = <<>>
    /\ allowed \in AllowedConfigs
    /\ main = [pc |-> "checking", code |-> NoneVal, client |-> FALSE,
               health |-> NoneVal]

\* the health check returns
HealthReturns(resp) ==
    /\ main.pc = "checking"
    /\ LET health == checkBackendHealth(resp)
       IN  main' = [MainAfterHealth(main, health) EXCEPT
                       !.health = IF health.healthy THEN "healthy"
                                  ELSE "unhealthy"]
    /\ UNCHANGED <<msgs, typing, sent, allowed, draftVars>>

\* await client.initialize()  returns, or throws into main()'s catch block
ClientInitialized(ok) ==
    /\ main.pc = "initializing"
    /\ main' = IF ok THEN [main EXCEPT !.pc = "running"]
               ELSE [main EXCEPT !.pc = "exited", !.code = 1]
    /\ UNCHANGED <<msgs, typing, sent, allowed, draftVars>>

\* SIGINT or SIGTERM: the client is destroyed and the process exits, and its
\* handlers with it
Shutdown ==
    /\ main.pc = "running"
    /\ main' = [main EXCEPT !.pc = "exited", !.code = 0]
    /\ msgs' = <<>>
    /\ sent' = <<>>
    /\ typing' = {}
    /\ UNCHANGED <<allowed, draftVars>>

\* the handler has returned
Finished(h) == h.pc \in {"ignored", "done"}

\* the client is ready and emits messages; the record of a handler that has
\* returned is dropped before anything else happens
Listening ==
    /\ main.pc = "running"
    /\ \A j \in 1..Len(msgs) : ~Finished(msgs[j])

\* s without its i-th element
Without(s, i) == [j \in 1..(Len(s) - 1) |-> IF j < i THEN s[j] ELSE s[j + 1]]

\* the handler of message i has returned: its record is dropped
Forget(i) ==
    /\ Finished(msgs[i])
    /\ msgs' = Without(msgs, i)
    /\ sent' = Without(sent, i)
    /\ UNCHANGED <<typing, allowed, main, draftVars>>

\* the handler of a message that has just been emitted
NewHandler(k) ==
    [msg |-> k, pc |-> "listener", result |-> NoResult, outcome |-> NoneVal,
     messageText |-> "", fileData |-> NoFile, requests |-> <<>>,
     downloads |-> 0, media |-> NoneVal, typed |-> FALSE, cleared |-> FALSE, threw |-> FALSE]

\* client.on('message', ...): the client emits a message and the listener
\* starts on it, whatever the listeners of earlier messages are doing
Arrive(k) ==
    /\ Listening
    /\ Len(msgs) < MaxMsgs
    /\ k.hasMedia =>
          Cardinality({j \in 1..Len(msgs) : msgs[j].msg.hasMedia}) < MaxMedia
    /\ msgs' = Append(msgs, NewHandler(k))
    /\ sent' = Append(sent, <<>>)
    /\ UNCHANGED <<typing, allowed, main, draftVars>>

\* variant: the bot's own messages are not filtered
Filtered_OwnPass(m) ==
    \/ m.isGroup
    \/ m.from = "status@broadcast" \/ m.broadcast

\* the first three filters of handleMessage: group, status/broadcast, own
Filtered(m) ==
    \/ m.isGroup
    \/ m.from = "status@broadcast" \/ m.broadcast
    \/ m.fromMe

\* variant: without the test  config.allowedNumbers.length > 0
AccessDenied_EmptyDeniesAll(m, allowedNumbers) ==
    PhoneOf(m.from) \notin allowedNumbers

\* the allow-list filter of handleMessage
AccessDenied(m, allowedNumbers) ==
    allowedNumbers # {} /\ PhoneOf(m.from) \notin allowedNumbers

\* the filters of handleMessage before it looks at the content: TRUE when the
\* message is dropped
Ignored(m, allowedNumbers) == Filtered(m) \/ AccessDenied(m, allowedNumbers)

\* from  chat.sendStateTyping()  to  await sendMessageToAgent(...):  the
\* indicator is set and the POST is made
Forwarded(h, messageText, fileData) ==
    [h EXCEPT !.pc = "awaiting_backend", !.messageText = messageText,
              !.fileData = fileData, !.typed = TRUE,
              !.requests = Append(@, Payload(h.msg.from, messageText, fileData))]

\* handleMessage from its start to its first await: the download of the
\* media, or the backend request
HandleMessage(i) ==
    /\ Listening
    /\ msgs[i].pc = "listener"
    /\ LET m == msgs[i].msg
           messageText == JsOr(m.body, "")
       IN  IF Ignored(m, allowed)
           THEN /\ msgs' = [msgs EXCEPT ![i].pc = "ignored"]
                /\ UNCHANGED typing
           ELSE IF m.hasMedia
           THEN /\ msgs' = [msgs EXCEPT ![i].pc = "downloading",
                                        ![i].messageText = messageText,
                                        ![i].downloads = @ + 1]
                /\ UNCHANGED typing
           ELSE IF NoText(messageText)
           THEN /\ msgs' = [msgs EXCEPT ![i].pc = "ignored",
                                        ![i].messageText = messageText]
                /\ UNCHANGED typing
           ELSE /\ msgs' = [msgs EXCEPT ![i] = Forwarded(@, messageText, NoFile)]
                /\ typing' = typing \cup {m.from}
    /\ UNCHANGED <<sent, allowed, main, draftVars>>

\* await message.downloadMedia()  ends; the rest of the media block, the test
\* for text, and on to the backend request
DownloadReturns(i, dl) ==
    /\ Listening
    /\ msgs[i].pc = "downloading"
    /\ LET m == msgs[i].msg
           r == ProcessMedia(m.body, dl)
       IN  IF r.throws
           THEN /\ msgs' = [msgs EXCEPT ![i].pc = "fallback", ![i].threw = TRUE,
                                        ![i].media = dl.kind]
                /\ UNCHANGED typing
           ELSE IF r.returns \/ NoText(r.messageText)
           THEN /\ msgs' = [msgs EXCEPT ![i].pc = "ignored",
                                        ![i].messageText = r.messageText,
                                        ![i].media = dl.kind]
                /\ UNCHANGED typing
           ELSE /\ msgs' = [msgs EXCEPT
                               ![i] = Forwarded([@ EXCEPT !.media = dl.kind],
                                                r.messageText, r.fileData)]
                /\ typing' = typing \cup {m.from}
    /\ UNCHANGED <<sent, allowed, main, draftVars>>

\* variant: the indicator is cleared only on the success branch
TypingAfterBackend_OnSuccess(t, from, result) ==
    IF result.success THEN t \ {from} ELSE t

\* chat.clearState()  after the backend call, whatever it returned
TypingAfterBackend(t, from, result) == t \ {from}

\* variant: a failed request is answered with the apology of the catch block
ReplyText_ApologyOnFailure(result) ==
    IF result.success THEN result.response ELSE Apology

\* message.reply(result.response)  on both branches of  if (result.success)
ReplyText(result) == result.response

\* sendMessageToAgent returns (the POST succeeded, or failed or timed out);
\* chat.clearState(); then  await message.reply(result.response)
BackendReturns(i, outcome) ==
    /\ Listening
    /\ msgs[i].pc = "awaiting_backend"
    /\ LET h == msgs[i]
           r == sendMessageToAgent(h.msg.from, h.messageText, h.fileData, outcome)
       IN  IF r.threw
           THEN /\ msgs' = [msgs EXCEPT ![i].pc = "fallback", ![i].threw = TRUE,
                                        ![i].outcome = outcome]
                /\ UNCHANGED typing
           ELSE /\ typing' = TypingAfterBackend(typing, h.msg.from, r.result)
                /\ msgs' = [msgs EXCEPT ![i].pc = "replying",
                                        ![i].result = r.result,
                                        ![i].outcome = outcome,
                                        ![i].cleared = h.msg.from \notin typing']
    /\ UNCHANGED <<sent, allowed, main, draftVars>>

\* message.reply(result.response) completes, or throws into the catch block
ReplyDone(i, ok) ==
    /\ Listening
    /\ msgs[i].pc = "replying"
    /\ IF ok
       THEN /\ sent' = [sent EXCEPT ![i] = Append(@, ReplyText(msgs[i].result))]
            /\ msgs' = [msgs EXCEPT ![i].pc = "done"]
       ELSE /\ msgs' = [msgs EXCEPT ![i].pc = "fallback", ![i].threw = TRUE]
            /\ UNCHANGED sent
    /\ UNCHANGED <<typing, allowed, main, draftVars>>

\* the fallback reply of the catch block completes, or throws and is logged
FallbackDone(i, ok) ==
    /\ Listening
    /\ msgs[i].pc = "fallback"
    /\ sent' = IF ok THEN [sent EXCEPT ![i] = Append(@, Apology)] ELSE sent
    /\ msgs' = [msgs EXCEPT ![i].pc = "done"]
    /\ UNCHANGED <<typing, allowed, main, draftVars>>

NextFrontend ==
    \/ \E resp \in HealthResponses : HealthReturns(resp)
    \/ \E ok \in BOOLEAN : ClientInitialized(ok)
    \/ Shutdown
    \/ \E k \in MsgKinds : Arrive(k)
    \/ \E i \in 1..Len(msgs) : Forget(i)
    \/ \E i \in 1..Len(msgs) : HandleMessage(i)
    \/ \E i \in 1..Len(msgs) :
          \E dl \in DownloadOutcomes(msgs[i].msg) : DownloadReturns(i, dl)
    \/ \E i \in 1..Len(msgs), outcome \in PostOutcomes : BackendReturns(i, outcome)
    \/ \E i \in 1..Len(msgs), ok \in BOOLEAN : ReplyDone(i, ok)
    \/ \E i \in 1..Len(msgs), ok \in BOOLEAN : FallbackDone(i, ok)

SpecFrontend == InitFrontend /\ [][NextFrontend]_vars

----------------------------------------------------------------------------
(* Properties of one pass of the sync logic over a draft (rec) *)

\* rec describes a pass of the sync logic
Passed == rec.id # 0

\* the attributes the sync logic has no business with
Protected(r) == <<r.id, r.user_id, r.gmail_draft_id, r.status, r.expires_at,
                  r.created_at>>

\* C1, as stated: after a pass with fetched content, each of to_email, subject
\* and body holds the Gmail value if that value is present and not empty or
\* whitespace-only, and its previous local value otherwise.
C1_BlankKeepsLocal ==
    (Passed /\ rec.synced) =>
        \A f \in Fields :
            rec.after[f] = IF IsBlank(rec.gc[f]) THEN rec.before[f] ELSE rec.gc[f]

\* C1, amended: after a pass with fetched content, each of to_email, subject
\* and body holds the Gmail value if and only if that value is present and not
\* the empty string (a whitespace-only value replaces the local one); in every
\* other case the field keeps its previous local value.
C1_RemoteWinsIffNotEmpty ==
    (Passed /\ rec.synced) =>
        \A f \in Fields :
            /\ rec.gc[f] \notin {"", NoneVal} => rec.after[f] = rec.gc[f]
            /\ rec.gc[f] \in {"", NoneVal} => rec.after[f] = rec.before[f]

\* a pass where Gmail's subject is a blank and replaced a text, and Gmail's body
\* is empty and the local body stayed
C1_Witness ==
    /\ Passed /\ rec.synced
    /\ rec.gc.subject = " " /\ rec.before.subject = "meeting"
    /\ rec.after.subject = " "
    /\ rec.gc.body = "" /\ rec.after.body = "Meeting at 2 PM"

\* C2: whatever List and Select calls have run, with whatever fetch results,
\* id, owner, gmail_draft_id, status, expiry and creation time of every draft
\* (committed, in the session, and as shown) are those it was created with.
C2_ProtectedNeverMove ==
    /\ \A d \in DraftIds :
          /\ Protected(db[d]) = Protected(InitDraft(d))
          /\ Protected(sess[d]) = Protected(InitDraft(d))
    /\ \A i \in 1..Len(ret) : Protected(ret[i]) = Protected(InitDraft(drafts[i]))
    /\ Passed => Protected(rec.after) = Protected(rec.before)

\* a second tool call has ended, some draft was altered by its pass and
\* a List has committed content fetched from Gmail
C2_Witness ==
    /\ ops >= 2
    /\ pc \in {"list_done", "select_done"}
    /\ Passed /\ rec.synced /\ rec.after # rec.before
    /\ \E d \in DraftIds : db[d] # InitDraft(d) /\ db[d].body = "Meeting at 3 PM"

\* C3: a pass whose fetch returned None leaves the draft as it was, in every
\* attribute, and does not report it as synced.
C3_UnavailableIsNoOp ==
    (Passed /\ rec.fetched /\ ~rec.gc.ok) =>
        /\ rec.after = rec.before
        /\ ~rec.synced
        /\ sess[rec.id] = rec.before

\* a fetch returned None although the Gmail draft exists and differs
C3_Witness ==
    /\ Passed /\ rec.fetched /\ ~rec.gc.ok
    /\ rec.id = 1
    /\ gmail["g1"].exists
    /\ gmail["g1"].subject = "Version A"
    /\ rec.after.subject = "meeting"

\* C4: a draft whose gmail_draft_id is None or empty is not fetched, is left
\* as it was in every attribute, is not reported as synced and adds nothing
\* to synced_count.
C4_NoGmailIdIsSkipped ==
    /\ (Passed /\ ~Truthy(rec.before.gmail_draft_id)) =>
            /\ ~rec.fetched
            /\ ~rec.synced
            /\ rec.after = rec.before
            /\ fetches[rec.id] = 0
            /\ rec.id \notin changed
    /\ \A d \in DraftIds : ~Truthy(InitDraft(d).gmail_draft_id) => fetches[d] = 0
    /\ pc \in {"list", "list_done"} =>
            synced_count <= Cardinality({i \in 1..(idx - 1) :
                                            Truthy(InitDraft(drafts[i]).gmail_draft_id)})

\* a List has passed over a draft without Gmail id after syncing another one
C4_Witness ==
    /\ Passed /\ rec.op = "list"
    /\ rec.before.gmail_draft_id = ""
    /\ synced_count = 1
    /\ ~rec.fetched

\* C5, as stated: a pass reports the draft as synced exactly when one of
\* to_email, subject, body differs after it.
C5_ChangedIffDiffers ==
    Passed => (rec.synced <=> \E f \in Fields : rec.after[f] # rec.before[f])

\* C5, amended: a pass reports the draft as synced exactly when the fetch
\* returned content, whether or not a field differs afterwards; so a pass that
\* altered a field always reports it, and a fetch whose values all equal the
\* local ones is reported too.
C5_SyncedIffFetched ==
    Passed =>
        /\ rec.synced <=> (rec.fetched /\ rec.gc.ok)
        /\ (\E f \in Fields : rec.after[f] # rec.before[f]) => rec.synced
        /\ rec.op = "list" =>
              synced_count >= Cardinality(changed)

\* a fetch returned content equal to the local values and the draft is counted
C5_Witness ==
    /\ Passed /\ rec.synced /\ rec.op = "list"
    /\ rec.after = rec.before
    /\ \A f \in Fields : rec.gc[f] = rec.before[f]
    /\ synced_count = 1

----------------------------------------------------------------------------
(* Properties of a whole List or Select call *)

\* the fetch of the running tool call for draft d returned content
FetchedOk(d) == fetches[d] > 0 /\ last[d].gc.ok

\* C6, as stated: a List makes exactly one commit when at least one draft
\* was altered and none when no draft was altered.
C6_CommitIffChanged ==
    pc = "list_done" => commits = IF changed # {} THEN 1 ELSE 0

\* C6, amended: a List makes exactly one commit when at least one fetch
\* returned content (so whenever a draft was altered, but also when the fetched
\* values altered nothing) and none otherwise; the commit comes after the loop
\* has passed over all drafts, never once per draft.
C6_OneCommitAfterLoop ==
    /\ pc = "list" => commits = 0
    /\ pc = "list_done" =>
          /\ commits = IF \E d \in DraftIds : FetchedOk(d) THEN 1 ELSE 0
          /\ changed # {} => commits = 1
          /\ commits = 1 => \A d \in DraftIds : db[d] = sess[d]
    /\ commits > 0 => idx > Len(drafts)
    /\ commits <= 1

\* a List over three drafts altered two of them and committed once
C6_Witness ==
    /\ pc = "list_done"
    /\ Cardinality(changed) = 2
    /\ Len(drafts) >= 3
    /\ commits = 1

\* the previous pass over the same draft fetched the same content, and nothing
\* has touched the draft in between
TwiceInARow ==
    /\ Passed /\ rec.fetched /\ rec.gc.ok
    /\ rec.prev.gc.ok
    /\ rec.prev.gc = rec.gc
    /\ rec.before = rec.prev.after

\* C7, as stated: a second pass with the same fetched content yields the
\* draft the first pass yielded and does not report it as synced.
C7_SecondPassNotSynced ==
    TwiceInARow => rec.after = rec.prev.after /\ ~rec.synced

\* C7, amended: a second pass with the same fetched content yields the draft
\* the first pass yielded, altering no attribute; it is reported as synced
\* again all the same.
C7_Idempotent ==
    TwiceInARow => rec.after = rec.prev.after /\ rec.after = rec.before /\ rec.synced

\* a Select after a List that had brought in an edited subject and kept the
\* local recipient because Gmail's was empty
C7_Witness ==
    /\ TwiceInARow
    /\ rec.op = "select" /\ rec.id = 1
    /\ rec.gc.subject = "Version A" /\ rec.gc.to_email = ""
    /\ rec.after.subject = "Version A"
    /\ rec.after.to_email = "alice@example.com"

\* the draft at position i of what the running tool call shows
Shown(d) == CHOOSE r \in {ret[i] : i \in 1..Len(ret)} : r.id = d

IsShown(d) == \E i \in 1..Len(ret) : ret[i].id = d

C9_ConcurrentEdits ==
    ( /\ pc = "list_done"
      /\ ops = 1
      /\ edits = << [by |-> "gmail", id |-> 1, field |-> "body",
                     val |-> "Version A", at |-> 0],
                    [by |-> "chatbot", id |-> 1, field |-> "subject",
                     val |-> "Version B", at |-> 0] >>
      /\ FetchedOk(1) )
    => /\ Shown(1).subject = "Version B"
       /\ Shown(1).body = "Version A"

\* all edits so far were made in Gmail, and there was one
OnlyGmailEdits ==
    /\ Len(edits) > 0
    /\ \A i \in 1..Len(edits) : edits[i].by = "gmail"

\* C10: after edits made in Gmail, a List or Select whose fetch returned
\* content shows and leaves the draft with the to_email, subject and body that
\* Gmail held when fetched.
C10_AlwaysLatest ==
    (pc \in {"list_done", "select_done"} /\ OnlyGmailEdits) =>
        \A d \in DraftIds : (FetchedOk(d) /\ IsShown(d)) =>
            \A f \in Fields : Shown(d)[f] = last[d].gc[f]

----------------------------------------------------------------------------
(* Fetch failures *)

\* C11: a fetch that returns None, for whatever reason, does not end the tool
\* call: the draft is shown with its local values, and a List still fetches
\* every other draft that has a Gmail id and shows all drafts.
C11_FetchFailureDegrades ==
    /\ (Passed /\ rec.fetched /\ ~rec.gc.ok) =>
            pc \in {"list", "list_done", "list_failed", "select_done"}
    /\ pc = "list_done" =>
          /\ Len(ret) = Len(drafts)
          /\ \A i \in 1..Len(drafts) :
                LET d == drafts[i]
                IN  /\ Truthy(pre[d].gmail_draft_id) => fetches[d] = 1
                    /\ (fetches[d] > 0 /\ ~last[d].gc.ok) => ret[i] = pre[d]
    /\ (pc = "select_done" /\ rec.fetched /\ ~rec.gc.ok) =>
            ret = <<pre[selector]>>

\* a List whose fetch for draft 1 failed (the Gmail draft is gone) has brought
\* in the Gmail body of draft 3 and shows draft 1 as stored
C11_Witness ==
    /\ pc = "list_done"
    /\ ~gmail["g1"].exists
    /\ fetches[1] = 1 /\ ~last[1].gc.ok
    /\ FetchedOk(3) /\ 3 \in changed
    /\ ret[1] = pre[1]
    /\ ret[3].body = "Meeting at 3 PM"

\* C12: _fetch_gmail_draft never raises: each way of failing gives None, only a
\* call that went well gives content, and a call leaves the committed rows and
\* the draft it was made for as they were.
C12_FetcherNeverRaises ==
    /\ pc # "aborted"
    /\ (Passed /\ rec.fetched) =>
          /\ rec.mode = "ok" <=> rec.gc.ok
          /\ rec.mode \in FailureModes =>
                /\ rec.gc = NoneContent
                /\ rec.after = rec.before
                /\ sess[rec.id] = rec.before
    /\ pc = "list" => db = pre

\* the fetch for a draft deleted in Gmail was answered "not found" and gave None
C12_Witness ==
    /\ Passed /\ rec.fetched
    /\ rec.mode = "not_found"
    /\ rec.id = 1 /\ ~gmail["g1"].exists
    /\ rec.gc = NoneContent
    /\ pc \in {"list", "select_done"}

----------------------------------------------------------------------------
(* Persistence and fetch counts *)

\* C13: when a Select has altered the selected draft, the merged draft has
\* been committed when the tool returns, the draft shown is the committed one,
\* and no other row has been modified.
C13_SelectCommits ==
    (pc = "select_done" /\ changed # {}) =>
        /\ commits = 1
        /\ db[selector] = ret[1]
        /\ \A d \in DraftIds \ {selector} : db[d] = pre[d]

\* the number of fetches a tool call owes draft d
FetchesDue(d) == IF Truthy(pre[d].gmail_draft_id) THEN 1 ELSE 0

\* what Gmail holds for the draft of the pass rec'
GmailNow(r) ==
    [ok |-> TRUE, to_email |-> gmail[r.before.gmail_draft_id].to_email,
     subject |-> gmail[r.before.gmail_draft_id].subject,
     body |-> gmail[r.before.gmail_draft_id].body]

----------------------------------------------------------------------------
(* Message handling in the frontend *)

\* the handler of message i is between its backend request and its reply
InHandling(i) == msgs[i].pc \in {"awaiting_backend", "replying", "fallback"}

\* C15: the messages of one user are handled one at a time: no two messages of
\* the same sender are between backend request and reply at the same moment.
C15_OneMessageAtATime ==
    \A i, j \in 1..Len(msgs) :
        (i # j /\ msgs[i].msg.from = msgs[j].msg.from) =>
            ~(InHandling(i) /\ InHandling(j))

----------------------------------------------------------------------------
(* Commit, errors and the list shown *)

\* C16: while a List is running the committed rows are those of its start;
\* when it has ended, either every draft it altered is committed or none is.
C16_AllOrNothingVisible ==
    /\ pc = "list" => db = pre
    /\ pc \in {"list_done", "list_failed"} =>
          \/ db = pre
          \/ \A d \in DraftIds : db[d] = sess[d]

\* a List that altered two drafts has ended and both are committed
C16_Witness ==
    /\ pc = "list_done"
    /\ changed = {1, 3}
    /\ db # pre
    /\ db[1] = sess[1] /\ db[1] # pre[1]
    /\ db[3] = sess[3] /\ db[3] # pre[3]

\* C17: a tool call whose commit failed ends in failure and shows nothing, and
\* a tool call that ends in success has every draft it altered committed.
C17_NoSuccessWithoutPersist ==
    /\ pc = "list_failed" => ret = <<>>
    /\ pc \in {"list_done", "select_done"} => \A d \in changed : db[d] = sess[d]

\* C18: a Select whose number names no draft answers "no such draft", fetches
\* nothing from Gmail and leaves the rows as they were.
C18_NoSuchDraft ==
    (selector # 0 /\ selector \notin DraftIds) =>
        /\ pc = "no_such_draft"
        /\ ret = <<>>
        /\ \A d \in DraftIds : fetches[d] = 0
        /\ db = pre
        /\ commits = 0

\* draft number NumDrafts + 1 was asked for after a List had synced the drafts
C18_Witness ==
    /\ pc = "no_such_draft"
    /\ selector = NumDrafts + 1
    /\ ops = 2
    /\ db # [d \in DraftIds |-> InitDraft(d)]

AllEmpty(gc) == gc.ok /\ gc.to_email = "" /\ gc.subject = "" /\ gc.body = ""

\* C20, as stated: fetched content with all three fields empty is not None,
\* leaves every attribute of the draft as it was, and is not reported as synced.
C20_EmptyNotSynced ==
    (Passed /\ rec.fetched /\ AllEmpty(rec.gc)) =>
        /\ rec.gc # NoneContent
        /\ rec.after = rec.before
        /\ ~rec.synced

\* C20, amended: fetched content with all three fields empty is not None and
\* leaves every attribute of the draft as it was; unlike None it is reported as
\* synced (and makes a List commit).
C20_EmptyChangesNothing ==
    /\ (Passed /\ rec.fetched /\ AllEmpty(rec.gc)) =>
          /\ rec.gc # NoneContent
          /\ rec.mode = "ok"
          /\ rec.after = rec.before
          /\ rec.id \notin changed
          /\ rec.synced
    /\ (pc = "list_done" /\ \E d \in DraftIds : FetchedOk(d) /\ AllEmpty(last[d].gc))
          => commits = 1

\* the fetch for draft 1, emptied in Gmail, went well and the draft is as stored
C20_Witness ==
    /\ Passed /\ rec.fetched /\ AllEmpty(rec.gc)
    /\ rec.id = 1
    /\ rec.after = InitDraft(1)

----------------------------------------------------------------------------
(* Frame of the sync logic *)

\* the fields of the fetched content that are not empty or whitespace-only and
\* differ from the draft's
NonBlankDiffers(r) ==
    {f \in Fields : ~IsBlank(r.gc[f]) /\ r.gc[f] # r.before[f]}

\* the fields of the fetched content that are not the empty string and differ
\* from the draft's
TruthyDiffers(r) ==
    {f \in Fields : Truthy(r.gc[f]) /\ r.gc[f] # r.before[f]}

\* C21, as stated: when exactly one of to_email, subject, body of the fetched
\* content is not empty (nor whitespace-only) and differs from the draft's,
\* the pass alters that attribute only.
C21_OnlyNonBlankField ==
    (Passed /\ rec.synced /\ Cardinality(NonBlankDiffers(rec)) = 1) =>
        \A f \in Fields :
            rec.after[f] = IF f \in NonBlankDiffers(rec) THEN rec.gc[f]
                           ELSE rec.before[f]

\* C21, amended: when exactly one of to_email, subject, body of the fetched
\* content is not the empty string and differs from the draft's, the pass
\* alters that attribute only, to Gmail's value; the other two keep their
\* values, as does every other attribute of the draft.
C21_OnlyThatField ==
    (Passed /\ rec.synced /\ Cardinality(TruthyDiffers(rec)) = 1) =>
        /\ \A f \in Fields :
              rec.after[f] = IF f \in TruthyDiffers(rec) THEN rec.gc[f]
                             ELSE rec.before[f]
        /\ \E f \in TruthyDiffers(rec) :
              rec.after = [rec.before EXCEPT ![f] = rec.gc[f]]

\* Gmail's subject alone differs, its recipient is empty: the subject was
\* taken, recipient and body stayed
C21_Witness ==
    /\ Passed /\ rec.synced
    /\ TruthyDiffers(rec) = {"subject"}
    /\ rec.gc.to_email = "" /\ rec.gc.subject = "Version A"
    /\ rec.after.subject = "Version A"
    /\ rec.after.to_email = rec.before.to_email /\ rec.before.to_email # ""
    /\ rec.after.body = rec.before.body

\* C22: whatever List and Select calls have run, also when the Gmail draft was
\* deleted, the drafts in the database are those that were there before: none
\* is added and none is removed.
C22_NoCreateNoDelete ==
    /\ DOMAIN db = DraftIds
    /\ DOMAIN sess = DraftIds
    /\ \A d \in DraftIds : db[d].id = d /\ sess[d].id = d
    /\ pc \in {"list_done", "select_done"} =>
          \A i \in 1..Len(ret) : ret[i].id \in DraftIds

\* a List has committed after the Gmail draft of draft 1 was deleted: draft 1
\* is still in the database, as it was
C22_Witness ==
    /\ pc = "list_done"
    /\ commits = 1
    /\ ~gmail["g1"].exists
    /\ fetches[1] = 1 /\ rec.id # 0 /\ ~last[1].gc.ok
    /\ db[1] = InitDraft(1)
    /\ DOMAIN db = DraftIds

----------------------------------------------------------------------------
(* The WhatsApp frontend: what a handler does with a message *)

\* the message is of a group, a status or broadcast message, or the bot's own
Unwanted(m) ==
    m.isGroup \/ m.from = "status@broadcast" \/ m.broadcast \/ m.fromMe

\* the sender passes the allow-list
SenderAllowed(m) == allowed = {} \/ PhoneOf(m.from) \in allowed

\* the text is empty or whitespace-only
Blank(text) == text \in {"", " "}

\* the handler has got to the point where it knows what text it has
PastContent(h) == h.pc \notin {"listener", "downloading"}

\* the handler has made no backend request, set no indicator, sent no reply
Silent(i) ==
    /\ msgs[i].requests = <<>>
    /\ ~msgs[i].typed
    /\ sent[i] = <<>>

\* C23: a private message that is not the bot's own and has text to process
\* is forwarded to the backend if and only if the allow-list is empty or holds
\* the sender's number; for any other sender there is no backend request, no
\* typing indicator and no reply.
C23_AllowList ==
    \A i \in 1..Len(msgs) :
        LET h == msgs[i]
        IN  ~Unwanted(h.msg) =>
              /\ ~SenderAllowed(h.msg) =>
                    Silent(i) /\ h.downloads = 0 /\ h.pc \in {"listener", "ignored"}
              /\ (PastContent(h) /\ ~Blank(h.msg.body)) =>
                    (Len(h.requests) = 1 <=> SenderAllowed(h.msg))
              /\ (h.pc = "ignored" /\ SenderAllowed(h.msg)) => Blank(h.msg.body)

\* with allow-list {111}: the message of 222 was dropped in silence while that
\* of 111 is with the backend
C23_Witness ==
    /\ allowed = {"111"}
    /\ Len(msgs) = 2
    /\ msgs[1].msg = TextMsg("111@c.us", "show my drafts")
    /\ msgs[1].pc = "awaiting_backend" /\ Len(msgs[1].requests) = 1
    /\ msgs[2].msg = TextMsg("222@c.us", "show my drafts")
    /\ msgs[2].pc = "ignored" /\ Silent(2)

\* C24: for a message of a group, of status@broadcast or flagged broadcast, or
\* sent by the bot's own account, the handler makes no backend request,
\* downloads no media and sends no reply.
C24_UnwantedDropped ==
    \A i \in 1..Len(msgs) :
        Unwanted(msgs[i].msg) =>
            /\ Silent(i)
            /\ msgs[i].downloads = 0
            /\ msgs[i].pc \in {"listener", "ignored"}

\* the bot's own message has been dropped, with nothing done
C24_Witness ==
    /\ Len(msgs) = 1
    /\ msgs[1].msg.fromMe
    /\ msgs[1].pc = "ignored"
    /\ Silent(1) /\ msgs[1].downloads = 0

\* C25: a handler that got past the filters with text makes exactly one
\* backend request; when it is done and no exception occurred, exactly one
\* reply was sent: the backend's response if the request succeeded, the
\* connection-trouble text if not; the apology is only sent after an exception.
C25_OneRequestOneReply ==
    \A i \in 1..Len(msgs) :
        LET h == msgs[i]
        IN  /\ Len(h.requests) <= 1
            /\ h.pc \in {"awaiting_backend", "replying"} => Len(h.requests) = 1
            /\ (h.pc = "done" /\ ~h.threw) =>
                  /\ Len(h.requests) = 1
                  /\ sent[i] = <<IF h.outcome = "ok" THEN AgentReply
                                 ELSE ConnectionTrouble>>
            /\ Len(sent[i]) <= 1
            /\ (sent[i] # <<>> /\ sent[i][1] = Apology) => h.threw

\* the request timed out and the user got the connection-trouble text
C25_Witness ==
    /\ Len(msgs) = 1
    /\ msgs[1].pc = "done" /\ ~msgs[1].threw
    /\ msgs[1].outcome = "timeout"
    /\ Len(msgs[1].requests) = 1
    /\ sent[1] = <<ConnectionTrouble>>

\* C26: once the backend call of a handler that set the typing indicator has
\* returned, the indicator has been cleared, and no reply is sent before that,
\* whether the call succeeded, failed or timed out.
C26_TypingCleared ==
    \A i \in 1..Len(msgs) :
        LET h == msgs[i]
        IN  h.typed =>
              /\ h.pc \in {"replying", "fallback", "done"} => h.cleared
              /\ sent[i] # <<>> => h.cleared
              /\ h.cleared => h.outcome \in PostOutcomes

\* the request timed out, the indicator is off and the reply is still to send
C26_Witness ==
    /\ Len(msgs) = 1
    /\ msgs[1].typed /\ msgs[1].pc = "replying"
    /\ msgs[1].outcome = "timeout"
    /\ msgs[1].cleared /\ typing = {}
    /\ sent[1] = <<>>

\* the file fields of a payload
FileKeys == {"file_data", "file_name", "file_mime"}

\* the file data handleMessage can pass to sendMessageToAgent
FileDatas ==
    {NoFile,
     [present |-> TRUE, data |-> "JVBERi0x", name |-> "report.csv",
      mime |-> "text/csv"],
     [present |-> TRUE, data |-> "", name |-> "document.pdf",
      mime |-> "application/pdf"]}

\* C27: sendMessageToAgent never throws; when the POST fails or times out it
\* returns success = false with the fixed text, when it succeeds success =
\* true with the backend's response; the payload has file_data, file_name and
\* file_mime if and only if file data was passed.
C27_NeverThrows ==
    /\ \A f \in FileDatas, o \in PostOutcomes, t \in {"", "show my drafts"} :
          LET r == sendMessageToAgent("111@c.us", t, f, o)
          IN  /\ ~r.threw
              /\ r.result = IF o = "ok"
                            THEN [success |-> TRUE, response |-> AgentReply]
                            ELSE [success |-> FALSE, response |-> ConnectionTrouble]
              /\ r.payload.user_id = "111@c.us" /\ r.payload.message = t
              /\ IF f.present
                 THEN /\ FileKeys \subseteq DOMAIN r.payload
                      /\ r.payload.file_data = f.data
                      /\ r.payload.file_name = f.name
                      /\ r.payload.file_mime = f.mime
                 ELSE FileKeys \cap DOMAIN r.payload = {}
    /\ \A i \in 1..Len(msgs) :
          LET h == msgs[i]
          IN  /\ \A n \in 1..Len(h.requests) :
                    /\ h.fileData.present => FileKeys \subseteq DOMAIN h.requests[n]
                    /\ ~h.fileData.present =>
                          DOMAIN h.requests[n] = {"user_id", "message"}
              /\ h.outcome # NoneVal =>
                    /\ h.pc \in {"replying", "fallback", "done"}
                    /\ h.result.success = (h.outcome = "ok")
                    /\ h.result.response = IF h.outcome = "ok" THEN AgentReply
                                           ELSE ConnectionTrouble
                    /\ h.pc = "replying" => ~h.threw

\* a request with a file got an HTTP error: the handler has the failure result
\* and goes on to reply
C27_Witness ==
    /\ Len(msgs) = 1
    /\ msgs[1].fileData.present
    /\ msgs[1].requests[1].file_name = "document.pdf"
    /\ msgs[1].outcome = "http_error"
    /\ msgs[1].pc = "replying" /\ ~msgs[1].threw
    /\ msgs[1].result = [success |-> FALSE, response |-> ConnectionTrouble]

\* the name the file of message m is sent under
FileNameOf(m) ==
    IF m.filename \in {NoneVal, ""}
    THEN "document." \o getExtensionFromMimetype(m.mimetype)
    ELSE m.filename

\* C28: when the media of a message was downloaded: a document of a supported
\* type is forwarded with the file, and with the text 'Please summarize this
\* document.' when the message has no text (empty or whitespace-only); media of
\* another type is forwarded as text without file when the message has text,
\* and dropped without reply when it has none.
C28_MediaHandling ==
    \A i \in 1..Len(msgs) :
        LET h == msgs[i]
            m == msgs[i].msg
        IN  (h.media = "media") =>
              IF m.mimetype \in SupportedTypes
              THEN /\ Len(h.requests) = 1
                   /\ h.requests[1] =
                         [user_id |-> m.from,
                          message |-> IF Blank(m.body) THEN DefaultText ELSE m.body,
                          file_data |-> "JVBERi0x",
                          file_name |-> FileNameOf(m),
                          file_mime |-> m.mimetype]
              ELSE IF Blank(m.body)
              THEN h.pc = "ignored" /\ Silent(i)
              ELSE /\ Len(h.requests) = 1
                   /\ h.requests[1] = [user_id |-> m.from, message |-> m.body]

\* a PDF with a whitespace-only caption went to the backend as document.pdf
\* with the default text
C28_Witness ==
    /\ Len(msgs) = 1
    /\ msgs[1].msg = MediaMsg("111@c.us", " ", "application/pdf", NoneVal)
    /\ msgs[1].media = "media"
    /\ msgs[1].pc = "awaiting_backend"
    /\ msgs[1].requests[1].message = "Please summarize this document."
    /\ msgs[1].requests[1].file_name = "document.pdf"

\* C29: when the download of the media threw or gave nothing, no reply is sent
\* on that account: a message with text is forwarded without file, a message
\* without text is dropped without reply.
C29_DownloadFailure ==
    \A i \in 1..Len(msgs) :
        LET h == msgs[i]
            m == msgs[i].msg
        IN  (h.media \in {"nothing", "throws"}) =>
              IF Blank(m.body)
              THEN h.pc = "ignored" /\ Silent(i)
              ELSE /\ Len(h.requests) = 1
                   /\ h.requests[1] = [user_id |-> m.from, message |-> m.body]
                   /\ h.fileData = NoFile
                   /\ h.pc = "awaiting_backend" => ~h.threw /\ sent[i] = <<>>
                   /\ (sent[i] # <<>> /\ sent[i][1] = Apology) => h.outcome # NoneVal

\* the download of a CSV threw; its caption is with the backend, without file
C29_Witness ==
    /\ Len(msgs) = 1
    /\ msgs[1].msg.mimetype = "text/csv"
    /\ msgs[1].media = "throws"
    /\ msgs[1].pc = "awaiting_backend"
    /\ msgs[1].requests = <<[user_id |-> "111@c.us", message |-> "what is this?"]>>

\* C30: the WhatsApp client is initialized only once the health check has
\* returned healthy; when the check fails or returns healthy = false the
\* process exits with code 1, no client is initialized and no message handled.
C30_HealthGate ==
    /\ main.client => main.health = "healthy"
    /\ main.pc = "checking" => main.health = NoneVal /\ ~main.client
    /\ main.health = "unhealthy" =>
          /\ main.pc = "exited" /\ main.code = 1
          /\ ~main.client
    /\ (msgs # <<>> \/ sent # <<>> \/ typing # {}) =>
          main.client /\ main.health = "healthy" /\ main.pc = "running"

\* the backend answered healthy = false: exit code 1, no client
C30_Witness ==
    /\ main.health = "unhealthy"
    /\ main.pc = "exited" /\ main.code = 1
    /\ ~main.client
    /\ msgs = <<>>

====
